---- MODULE Spec2Model ----
(***************************************************************************)
(* Model of the notebook "1. LSTM Structure": a kernel that runs the       *)
(* notebook's three code cells in order.                                   *)
(*                                                                         *)
(* Tensors are records [shape, data] with data the contiguous row-major    *)
(* storage.  Numbers are fixed-point integers: the integer n stands for    *)
(* the real n / Scale.  The logistic and tanh activations of the LSTM      *)
(* equations are their piecewise-linear (hard) forms, so that every        *)
(* arithmetic step is exact and two ways of computing a value agree        *)
(* exactly when they perform the same operations in the same order.        *)
(*                                                                         *)
(* The random generator is a deterministic stream: the seed fixes the      *)
(* whole sequence of draws.  The stream's values are unknown, so `tape`    *)
(* holds the part of the seeded stream drawn so far and a draw past its    *)
(* end picks any value of the bounded sets below and records it.           *)
(***************************************************************************)
EXTENDS Integers, Sequences, FiniteSets, TLC

VARIABLES
    pc,           \* position of the kernel in the notebook
    rng,          \* position of the default generator in the seeded stream
    tape,         \* the seeded stream, as far as it has been drawn
    n_seq,        \* the number of input sequences made (the literal of range(..))
    lstm,         \* the nn.LSTM module (its sizes and parameters)
    inputs_list,  \* list of (1, input_dim) tensors
    hidden,       \* the pair (hidden state, cell state)
    out,          \* the last output tensor
    idx,          \* number of elements of inputs_list the for loop has consumed
    batch_size,   \* the batch dimension of the tensors (1 throughout the notebook)
    inputs,       \* the concatenated (T, 1, input_dim) tensor of the third cell
    printed,      \* what the cells of the current run have printed
    calls,        \* the invocations of lstm made by the current run
    run,          \* number of the current run of the notebook
    prev          \* what the previous run printed and called

vars == <<pc, rng, tape, n_seq, lstm, inputs_list, hidden, out, idx, batch_size,
          inputs, printed, calls, run, prev>>

-----------------------------------------------------------------------------
(* Program constants and bounds *)

input_dim == 4
hidden_dim == 3

\* fixed-point scale: n stands for n / Scale
Scale == 8

\* largest number of input sequences the second cell makes: the notebook's
\* range(5) is the case n_seq = 5, and the shorter lists, the empty one
\* included, are what the cell makes with a smaller literal
MaxSeqLen == 5

\* number of times the notebook is run in one kernel
MaxRuns == 2

\* largest batch size of the replicated-batch specification
MaxBatch == 2

None == [shape |-> <<>>, data |-> <<>>]

-----------------------------------------------------------------------------
(* Tensors *)

\* a function on 1..n as the tuple of its values
Vec(f) == f \o <<>>

RECURSIVE Prod(_)
Prod(s) == IF s = <<>> THEN 1 ELSE Head(s) * Prod(Tail(s))

Numel(t) == Prod(t.shape)

Tensor(shape, data) == [shape |-> shape, data |-> data]

\* faulty variant of CatData: the tensors are joined last to first
RECURSIVE CatDataReversed(_)
CatDataReversed(list) ==
    IF list = <<>> THEN <<>> ELSE CatDataReversed(Tail(list)) \o Head(list).data

\* torch.cat(list) along dimension 0 of 2-D tensors; defined on a non-empty list
RECURSIVE CatData(_)
CatData(list) ==
    IF list = <<>> THEN <<>> ELSE Head(list).data \o CatData(Tail(list))

RECURSIVE CatRows(_)
CatRows(list) ==
    IF list = <<>> THEN 0 ELSE Head(list).shape[1] + CatRows(Tail(list))

cat(list) == Tensor(<<CatRows(list), list[1].shape[2]>>, CatData(list))

\* tensor.view(d1, d2, -1): the storage is kept, the last dimension inferred
view(t, d1, d2) == Tensor(<<d1, d2, Numel(t) \div (d1 * d2)>>, t.data)

\* faulty variant of At: the first two dimensions are walked column-major
AtColumnMajor(t, i, j, k) ==
    t.data[((j - 1) * t.shape[1] + (i - 1)) * t.shape[3] + k]

\* element [i, j, k] of a contiguous 3-D tensor (1-based)
At(t, i, j, k) == t.data[((i - 1) * t.shape[2] + (j - 1)) * t.shape[3] + k]

\* the vector t[i, j, :]
Row(t, i, j) == Vec([k \in 1..t.shape[3] |-> At(t, i, j, k)])

-----------------------------------------------------------------------------
(* The LSTM primitive *)

Clamp(z, lo, hi) == IF z < lo THEN lo ELSE IF z > hi THEN hi ELSE z

\* piecewise-linear logistic: 1/2 + z/4 clamped to [0, 1]
Sigmoid(z) == Clamp((Scale \div 2) + (z \div 4), 0, Scale)

\* piecewise-linear tanh: z clamped to [-1, 1]
Tanh(z) == Clamp(z, -Scale, Scale)

RECURSIVE DotFrom(_, _, _)
DotFrom(w, x, k) ==
    IF k > Len(w) THEN 0 ELSE w[k] * x[k] + DotFrom(w, x, k + 1)

\* fixed-point inner product
Dot(w, x) == DotFrom(w, x, 1) \div Scale

\* pre-activation of row r of the stacked gates (rows ordered i, f, g, o)
Gate(m, r, x, h) ==
    Dot(m.weight_ih[r], x) + m.bias_ih[r] + Dot(m.weight_hh[r], h) + m.bias_hh[r]

\* faulty variant of LSTMCell: the cell state is left appended to the hidden state
LSTMCellConcat(m, x, h, c) ==
    LET H == m.hidden_size
        i == Vec([j \in 1..H |-> Sigmoid(Gate(m, j, x, h))])
        f == Vec([j \in 1..H |-> Sigmoid(Gate(m, H + j, x, h))])
        g == Vec([j \in 1..H |-> Tanh(Gate(m, 2 * H + j, x, h))])
        o == Vec([j \in 1..H |-> Sigmoid(Gate(m, 3 * H + j, x, h))])
        c1 == Vec([j \in 1..H |-> (f[j] * c[j] + i[j] * g[j]) \div Scale])
        h1 == Vec([j \in 1..H |-> (o[j] * Tanh(c1[j])) \div Scale])
    IN  <<h1 \o c1, c1>>

\* one time step for one batch entry: <<h', c'>>
LSTMCell(m, x, h, c) ==
    LET H == m.hidden_size
        i == Vec([j \in 1..H |-> Sigmoid(Gate(m, j, x, h))])
        f == Vec([j \in 1..H |-> Sigmoid(Gate(m, H + j, x, h))])
        g == Vec([j \in 1..H |-> Tanh(Gate(m, 2 * H + j, x, h))])
        o == Vec([j \in 1..H |-> Sigmoid(Gate(m, 3 * H + j, x, h))])
        c1 == Vec([j \in 1..H |-> (f[j] * c[j] + i[j] * g[j]) \div Scale])
        h1 == Vec([j \in 1..H |-> (o[j] * Tanh(c1[j])) \div Scale])
    IN  <<h1, c1>>

\* flatten a sequence of vectors into one storage
RECURSIVE Flatten(_)
Flatten(rows) == IF rows = <<>> THEN <<>> ELSE Head(rows) \o Flatten(Tail(rows))

\* faulty variant of Unroll: the time steps are read last to first
RECURSIVE UnrollReversed(_, _, _, _, _)
UnrollReversed(m, input, t, st, outs) ==
    IF t > input.shape[1]
    THEN [outs |-> outs, st |-> st]
    ELSE LET B == input.shape[2]
             nxt == Vec([b \in 1..B |->
                        LSTMCell(m, Row(input, input.shape[1] + 1 - t, b),
                                 st[b][1], st[b][2])])
         IN  UnrollReversed(m, input, t + 1, nxt,
                            outs \o Flatten([b \in 1..B |-> nxt[b][1]]))

\* faulty variant of Unroll: the pair of the last time step is not kept
RECURSIVE UnrollEarlyState(_, _, _, _, _)
UnrollEarlyState(m, input, t, st, outs) ==
    IF t > input.shape[1]
    THEN [outs |-> outs, st |-> st]
    ELSE LET B == input.shape[2]
             nxt == Vec([b \in 1..B |->
                        LSTMCell(m, Row(input, t, b), st[b][1], st[b][2])])
         IN  UnrollEarlyState(m, input, t + 1,
                              IF t = input.shape[1] THEN st ELSE nxt,
                              outs \o Flatten([b \in 1..B |-> nxt[b][1]]))

\* the time loop of the forward pass: st[b] is the pair of batch entry b
RECURSIVE Unroll(_, _, _, _, _)
Unroll(m, input, t, st, outs) ==
    IF t > input.shape[1]
    THEN [outs |-> outs, st |-> st]
    ELSE LET B == input.shape[2]
             nxt == Vec([b \in 1..B |->
                        LSTMCell(m, Row(input, t, b), st[b][1], st[b][2])])
         IN  Unroll(m, input, t + 1, nxt,
                    outs \o Flatten([b \in 1..B |-> nxt[b][1]]))

\* lstm(input, (h0, c0)) on input of shape (T, B, input_size) and states of
\* shape (1, B, hidden_size): the output (T, B, hidden_size) and (h_n, c_n)
LSTMForward(m, input, hx) ==
    LET T == input.shape[1]
        B == input.shape[2]
        H == m.hidden_size
        st0 == Vec([b \in 1..B |-> <<Row(hx[1], 1, b), Row(hx[2], 1, b)>>])
        r == Unroll(m, input, 1, st0, <<>>)
    IN  [out |-> Tensor(<<T, B, H>>, r.outs),
         hidden |-> <<Tensor(<<1, B, H>>, Flatten([b \in 1..B |-> r.st[b][1]])),
                      Tensor(<<1, B, H>>, Flatten([b \in 1..B |-> r.st[b][2]]))>>]

\* the shapes lstm accepts: anything else raises
Accepts(m, input, hx) ==
    /\ Len(input.shape) = 3
    /\ input.shape[3] = m.input_size
    /\ hx[1].shape = <<1, input.shape[2], m.hidden_size>>
    /\ hx[2].shape = <<1, input.shape[2], m.hidden_size>>

-----------------------------------------------------------------------------
(* What the generator can yield *)

\* number of parameter draws nn.LSTM's initialisation is chosen among
NumParamDraws == 2

\* parameters of nn.LSTM(input_size, hidden_size): the stacked gate rows
\* (i, f, g, o), entries within 1/sqrt(hidden_size) of zero
ParamDraw(a) ==
    [weight_ih |-> [r \in 1..(4 * hidden_dim) |->
                       [k \in 1..input_dim |-> ((7 * a * r + 3 * k * k + r * k) % 17) - 8]],
     weight_hh |-> [r \in 1..(4 * hidden_dim) |->
                       [k \in 1..hidden_dim |-> ((5 * a * r + 2 * k * k + a) % 17) - 8]],
     bias_ih   |-> [r \in 1..(4 * hidden_dim) |-> ((3 * a + 5 * r) % 17) - 8],
     bias_hh   |-> [r \in 1..(4 * hidden_dim) |-> ((a * r + 11) % 17) - 8]]

ParamDraws == {ParamDraw(a) : a \in 1..NumParamDraws}

\* torch.randn(1, input_dim)
InputDraws ==
    {Tensor(<<1, input_dim>>, d) : d \in {<<16, -8, 0, 4>>, <<-12, 8, 20, -4>>}}

\* torch.randn(1, 1, hidden_dim)
StateDraws ==
    {Tensor(<<1, 1, hidden_dim>>, d) : d \in {<<8, -4, 0>>, <<-16, 12, 4>>}}

\* faulty variant of manual_seed: the generator is left where it is
manual_seed_kept(pos) == pos

\* torch.manual_seed(2): the generator is put at the start of the seed's stream
manual_seed(pos) == 0

\* the next Len(vals) draws of the generator are vals: they repeat the stream
\* where it is known and extend it where it is not
Draw(vals) ==
    /\ \A i \in 1..Len(vals) : (rng + i <= Len(tape)) => (tape[rng + i] = vals[i])
    /\ tape' = [i \in 1..(IF Len(tape) > rng + Len(vals)
                          THEN Len(tape) ELSE rng + Len(vals)) |->
                   IF i <= Len(tape) THEN tape[i] ELSE vals[i - rng]]
    /\ rng' = rng + Len(vals)

\* nn.LSTM(input_size, hidden_size) with the drawn parameters p
NewLSTM(isz, hsz, p) ==
    [input_size |-> isz, hidden_size |-> hsz,
     weight_ih |-> p.weight_ih, weight_hh |-> p.weight_hh,
     bias_ih |-> p.bias_ih, bias_hh |-> p.bias_hh]

Line(label, value) == [label |-> label, value |-> value]

\* one invocation of lstm: what it was given and what it returned
Invocation(input, hx, r) ==
    [input |-> input, hx |-> hx, out |-> r.out, hidden |-> r.hidden]

\* faulty variant of InitialPair: the two states change places
InitialPairSwapped(h0, c0) == <<c0, h0>>

\* the pair first bound to hidden: (h0, c0)
InitialPair(h0, c0) == <<h0, c0>>

\* faulty variant of NextHidden: the returned pair is dropped
NextHiddenKept(r) == hidden

\* "out, hidden = lstm(..)": the value the assignment gives to hidden
NextHidden(r) == r.hidden

\* faulty variant of LoopInput: the element before the one the loop is at
LoopInputStale == view(inputs_list[IF idx = 0 THEN 1 ELSE idx], 1, 1)

\* "i.view(1, 1, -1)" for the element the for loop is at
LoopInput == view(inputs_list[idx + 1], 1, 1)

-----------------------------------------------------------------------------
(* The notebook *)

Init ==
    /\ pc = "seed"
    /\ rng = 0
    /\ tape = <<>>
    /\ n_seq \in 0..MaxSeqLen
    /\ lstm = [input_size |-> 0, hidden_size |-> 0]
    /\ inputs_list = <<>>
    /\ hidden = <<None, None>>
    /\ out = None
    /\ idx = 0
    /\ batch_size = 1
    /\ inputs = None
    /\ printed = <<>>
    /\ calls = <<>>
    /\ run = 1
    /\ prev = [printed |-> <<>>, calls |-> <<>>]

\* first code cell: the imports and torch.manual_seed(2)
ImportAndSeed ==
    /\ pc = "seed"
    /\ rng' = manual_seed(rng)
    /\ pc' = "define"
    /\ UNCHANGED <<tape, n_seq, lstm, inputs_list, hidden, out, idx, batch_size,
                   inputs, printed, calls, run, prev>>

\* second code cell up to the for statement: the module, the inputs, the
\* first print and the initial pair
DefineLSTM ==
    /\ pc = "define"
    /\ \E p \in ParamDraws, xs \in [1..n_seq -> InputDraws],
          h0 \in StateDraws, c0 \in StateDraws :
          /\ Draw(<<p>> \o xs \o <<h0, c0>>)
          /\ lstm' = NewLSTM(input_dim, hidden_dim, p)
          /\ inputs_list' = xs
          /\ hidden' = InitialPair(h0, c0)
          /\ printed' = printed \o <<Line("inputs: ", xs), Line("", <<>>)>>
    /\ idx' = 0
    /\ pc' = IF n_seq = 0 THEN "all_at_once" ELSE "loop"
    /\ UNCHANGED <<n_seq, out, batch_size, inputs, calls, run, prev>>

\* one iteration of "for i in inputs_list": the call and the two prints
LoopStep ==
    /\ pc = "loop"
    /\ idx < Len(inputs_list)
    /\ LET x == LoopInput
       IN  IF Accepts(lstm, x, hidden)
           THEN LET r == LSTMForward(lstm, x, hidden)
                IN  /\ out' = r.out
                    /\ hidden' = NextHidden(r)
                    /\ calls' = Append(calls, Invocation(x, hidden, r))
                    /\ printed' = printed \o <<Line("out: ", out'),
                                              Line("hidden: ", hidden')>>
                    /\ idx' = idx + 1
                    /\ pc' = IF idx + 1 = Len(inputs_list)
                             THEN "all_at_once" ELSE "loop"
           ELSE /\ pc' = "error"
                /\ UNCHANGED <<out, hidden, calls, printed, idx>>
    /\ UNCHANGED <<rng, tape, n_seq, lstm, inputs_list, batch_size, inputs,
                   run, prev>>

\* third code cell up to the call: concatenate, print, draw a new pair.
\* torch.cat raises on an empty list, and the cell stops there.
Concatenate ==
    /\ pc = "all_at_once"
    /\ IF inputs_list = <<>>
       THEN /\ pc' = "error"
            /\ UNCHANGED <<rng, tape, inputs, hidden, printed>>
       ELSE \E h0 \in StateDraws, c0 \in StateDraws :
               /\ inputs' = view(cat(inputs_list), Len(inputs_list), 1)
               /\ printed' = printed \o <<Line("inputs size: ", inputs'.shape),
                                          Line("", <<>>),
                                          Line("inputs: ", inputs'),
                                          Line("", <<>>)>>
               /\ Draw(<<h0, c0>>)
               /\ hidden' = InitialPair(h0, c0)
               /\ pc' = "call"
    /\ UNCHANGED <<n_seq, lstm, inputs_list, out, idx, batch_size, calls, run, prev>>

\* third code cell, the call on the whole tensor and the two prints
CallOnce ==
    /\ pc = "call"
    /\ IF Accepts(lstm, inputs, hidden)
       THEN LET r == LSTMForward(lstm, inputs, hidden)
            IN  /\ out' = r.out
                /\ hidden' = NextHidden(r)
                /\ calls' = Append(calls, Invocation(inputs, hidden, r))
                /\ printed' = printed \o <<Line("out: ", out'),
                                          Line("hidden: ", hidden')>>
                /\ pc' = "done"
       ELSE /\ pc' = "error"
            /\ UNCHANGED <<out, hidden, calls, printed>>
    /\ UNCHANGED <<rng, tape, n_seq, lstm, inputs_list, idx, batch_size, inputs,
                   run, prev>>

\* the notebook is run again from its first cell in the same kernel: the
\* cells' outputs are cleared, the kernel's variables stay
RunAgain ==
    /\ pc \in {"done", "error"}
    /\ run < MaxRuns
    /\ run' = run + 1
    /\ prev' = [printed |-> printed, calls |-> calls]
    /\ printed' = <<>>
    /\ calls' = <<>>
    /\ pc' = "seed"
    /\ UNCHANGED <<rng, tape, n_seq, lstm, inputs_list, hidden, out, idx,
                   batch_size, inputs>>

Next ==
    \/ ImportAndSeed
    \/ DefineLSTM
    \/ LoopStep
    \/ Concatenate
    \/ CallOnce
    \/ RunAgain

Spec == Init /\ [][Next]_vars

-----------------------------------------------------------------------------
(* The call on the whole tensor with a batch of identical sequences: the    *)
(* tensor of the third cell and its initial pair, repeated batch_size times *)
(* along the batch dimension.                                               *)

\* t.repeat(1, n, 1) of a (A, 1, D) tensor: shape (A, n, D)
repeat(t, n) ==
    Tensor(<<t.shape[1], n, t.shape[3]>>,
           Flatten([a \in 1..(t.shape[1] * n) |-> Row(t, ((a - 1) \div n) + 1, 1)]))

InitBatch ==
    /\ pc = "single"
    /\ rng = 0
    /\ tape = <<>>
    /\ n_seq \in 1..MaxSeqLen
    /\ batch_size \in 1..MaxBatch
    /\ \E p \in ParamDraws, xs \in [1..n_seq -> InputDraws],
          h0 \in StateDraws, c0 \in StateDraws :
          /\ lstm = NewLSTM(input_dim, hidden_dim, p)
          /\ inputs_list = xs
          /\ hidden = InitialPair(h0, c0)
          /\ inputs = view(cat(xs), Len(xs), 1)
    /\ out = None
    /\ idx = 0
    /\ printed = <<>>
    /\ calls = <<>>
    /\ run = 1
    /\ prev = [printed |-> <<>>, calls |-> <<>>]

\* the call with batch size 1, as in the third cell
CallSingle ==
    /\ pc = "single"
    /\ Accepts(lstm, inputs, hidden)
    /\ LET r == LSTMForward(lstm, inputs, hidden)
       IN  /\ out' = r.out
           /\ calls' = Append(calls, Invocation(inputs, hidden, r))
    /\ pc' = "replicate"
    /\ UNCHANGED <<rng, tape, n_seq, lstm, inputs_list, hidden, idx, batch_size,
                   inputs, printed, run, prev>>

\* the same call with inputs and initial pair repeated along the batch
CallReplicated ==
    /\ pc = "replicate"
    /\ LET x == repeat(inputs, batch_size)
           hx == <<repeat(hidden[1], batch_size), repeat(hidden[2], batch_size)>>
       IN  /\ Accepts(lstm, x, hx)
           /\ LET r == LSTMForward(lstm, x, hx)
              IN  /\ out' = r.out
                  /\ hidden' = NextHidden(r)
                  /\ calls' = Append(calls, Invocation(x, hx, r))
    /\ pc' = "compared"
    /\ UNCHANGED <<rng, tape, n_seq, lstm, inputs_list, idx, batch_size,
                   inputs, printed, run, prev>>

NextBatch ==
    \/ CallSingle
    \/ CallReplicated

SpecBatch == InitBatch /\ [][NextBatch]_vars

-----------------------------------------------------------------------------
(* Reading a run *)

\* what the loop printed at its t-th iteration
StepOut(t) == printed[2 * t + 1].value
StepHidden(t) == printed[2 * t + 2].value

\* the invocation of the third cell, once it has been made
Batched == calls[Len(calls)]

\* the first t time steps of a (T, 1, D) tensor
Prefix(x, t) == Tensor(<<t, 1, x.shape[3]>>, SubSeq(x.data, 1, t * x.shape[3]))

\* time step t of a (T, 1, D) tensor, as a (1, 1, D) tensor
TimeStep(x, t) == Tensor(<<1, 1, x.shape[3]>>, Row(x, t, 1))

\* a tensor whose storage has as many elements as its shape says
WellFormed(t) == Len(t.data) = Numel(t)

-----------------------------------------------------------------------------
(* C1: when the call on the whole tensor starts from the pair the loop     *)
(* started from, it returns at every time step the output the loop printed *)
(* at that step, and the pair the loop ended with.                         *)
C1_StepwiseEqualsBatched ==
    (pc = "done" /\ Batched.hx = calls[1].hx) =>
        /\ \A t \in 1..Len(inputs_list) :
              Row(out, t, 1) = Row(StepOut(t), 1, 1)
        /\ hidden = StepHidden(Len(inputs_list))

C1_Witness ==
    /\ pc = "done"
    /\ Batched.hx = calls[1].hx
    /\ Len(inputs_list) >= 3
    /\ inputs_list[1] # inputs_list[2]
    /\ Row(out, 1, 1) # Row(out, 2, 1)
    /\ Row(out, 2, 1) # Row(out, 3, 1)

(* C2: the call on a tensor of T time steps returns T outputs, the t-th    *)
(* being the hidden state reached after the first t inputs, and one pair:  *)
(* the one made by processing the last input from the pair reached after   *)
(* the T-1 inputs before it.                                               *)
C2_BatchedOutputsAndFinalPair ==
    (pc = "done") =>
        LET T == Len(inputs_list)
            b == Batched
        IN  /\ b.out.shape = <<T, 1, hidden_dim>>
            /\ WellFormed(b.out)
            /\ \A t \in 1..T :
                  Row(b.out, t, 1) =
                      LSTMForward(lstm, Prefix(b.input, t), b.hx).hidden[1].data
            /\ b.hidden[1].data = Row(b.out, T, 1)
            /\ T >= 2 =>
                  b.hidden =
                      LSTMForward(lstm, TimeStep(b.input, T),
                          LSTMForward(lstm, Prefix(b.input, T - 1), b.hx).hidden).hidden
            /\ hidden = b.hidden /\ out = b.out

C2_Witness ==
    /\ pc = "done"
    /\ Len(inputs_list) >= 3
    /\ Row(out, 3, 1) # Row(out, 1, 1)
    /\ Row(out, 3, 1) # Row(out, 2, 1)
    /\ hidden[1].data = Row(out, 3, 1)

(* C3: what the loop prints at step t, the output and the new pair, is the  *)
(* one-step forward of the module applied to the t-th input and the pair   *)
(* that entered the step, whatever came before or comes after: two steps   *)
(* with equal input and equal entering pair print the same.                *)
StepsDone == IF pc \in {"seed", "define"} THEN 0 ELSE idx

StateBefore(t) == IF t = 1 THEN calls[1].hx ELSE StepHidden(t - 1)

C3_StepDependsOnInputAndState ==
    /\ \A t \in 1..StepsDone :
          LET r == LSTMForward(lstm, view(inputs_list[t], 1, 1), StateBefore(t))
          IN  StepOut(t) = r.out /\ StepHidden(t) = r.hidden
    /\ \A s, t \in 1..StepsDone :
          (inputs_list[s] = inputs_list[t] /\ StateBefore(s) = StateBefore(t))
              => (StepOut(s) = StepOut(t) /\ StepHidden(s) = StepHidden(t))

\* two steps of one run with equal input and equal entering pair, the later
\* one with a longer history that holds a different input
C3_Witness ==
    \E s, t \in 1..StepsDone :
        /\ s < t
        /\ inputs_list[s] = inputs_list[t]
        /\ StateBefore(s) = StateBefore(t)
        /\ \E u \in 1..(t - 1) : inputs_list[u] # inputs_list[t]

(* C4: the hidden state, the cell state and every output have width        *)
(* hidden_dim, and every input given to the module has width input_dim.    *)
HasWidth(t, w) == t.shape[Len(t.shape)] = w /\ WellFormed(t)

C4_Widths ==
    /\ hidden # <<None, None>> =>
          HasWidth(hidden[1], hidden_dim) /\ HasWidth(hidden[2], hidden_dim)
    /\ out # None => HasWidth(out, hidden_dim)
    /\ \A k \in 1..Len(calls) :
          /\ HasWidth(calls[k].input, input_dim)
          /\ HasWidth(calls[k].hx[1], hidden_dim)
          /\ HasWidth(calls[k].hx[2], hidden_dim)
          /\ HasWidth(calls[k].out, hidden_dim)
          /\ HasWidth(calls[k].hidden[1], hidden_dim)
          /\ HasWidth(calls[k].hidden[2], hidden_dim)
    /\ \A k \in 1..Len(inputs_list) : HasWidth(inputs_list[k], input_dim)
    /\ pc \in {"call", "done"} => HasWidth(inputs, input_dim)

C4_Witness ==
    /\ pc = "done"
    /\ Len(calls) >= 4
    /\ Len(Row(out, 3, 1)) = 3
    /\ Len(Row(Batched.input, 3, 1)) = 4

C7_InitializedOnce ==
    [][(hidden' # hidden /\ pc # "define") =>
          (calls' # calls /\ hidden' = calls'[Len(calls')].hidden)]_vars

(* C7, amended: hidden is initialised once for each pattern, before the    *)
(* loop and again before the call on the whole tensor; every other change  *)
(* replaces it by the pair returned by an invocation that was given the    *)
(* old value; after a full sequence it is the pair returned by the         *)
(* invocation that processed the last element.                             *)
C7_Lifecycle ==
    /\ [][hidden' # hidden =>
            \/ /\ pc \in {"define", "all_at_once"}
               /\ hidden' \in StateDraws \X StateDraws
               /\ calls' = calls
            \/ /\ pc \in {"loop", "call"}
               /\ Len(calls') = Len(calls) + 1
               /\ calls'[Len(calls')].hx = hidden
               /\ hidden' = calls'[Len(calls')].hidden]_vars
    /\ [](((pc = "all_at_once" /\ calls # <<>>) \/ pc = "done") =>
            /\ hidden = Batched.hidden
            /\ Row(Batched.input, Batched.input.shape[1], 1)
                  = inputs_list[Len(inputs_list)].data)

C7_Witness ==
    /\ pc = "done"
    /\ Len(inputs_list) >= 2
    /\ hidden = Batched.hidden
    /\ Batched.hx # calls[Len(calls) - 1].hidden

(* C8: a second run of the notebook draws what the first run drew and      *)
(* prints and invokes what the first run printed and invoked, step by step.*)
IsPrefix(a, b) == Len(a) <= Len(b) /\ a = SubSeq(b, 1, Len(a))

C8_SeedReproduces ==
    (run >= 2) =>
        /\ IsPrefix(printed, prev.printed)
        /\ IsPrefix(calls, prev.calls)
        /\ pc \in {"done", "error"} =>
              (printed = prev.printed /\ calls = prev.calls)

C8_Witness ==
    /\ run = 2
    /\ pc = "done"
    /\ Len(inputs_list) >= 2
    /\ printed = prev.printed
    /\ Len(calls) = Len(inputs_list) + 1

(* C9: the concatenated and reshaped tensor has shape (T, 1, input_dim)    *)
(* and its t-th time step is the t-th vector of the list, so the call on   *)
(* the whole tensor sees the inputs in the order the loop saw them.        *)
C9_ConcatenationKeepsOrder ==
    /\ pc \in {"call", "done"} =>
          /\ inputs.shape = <<Len(inputs_list), 1, input_dim>>
          /\ WellFormed(inputs)
          /\ \A t \in 1..Len(inputs_list) :
                Row(inputs, t, 1) = inputs_list[t].data
    /\ pc = "done" =>
          \A t \in 1..Len(inputs_list) :
              Row(Batched.input, t, 1) = calls[t].input.data

C9_Witness ==
    /\ pc = "done"
    /\ Len(inputs_list) >= 3
    /\ inputs_list[1] # inputs_list[2]
    /\ Row(inputs, 2, 1) = inputs_list[2].data

(* C10: the loop invokes the module once for each element of the list, in  *)
(* list order, and is over after as many invocations as the list has       *)
(* elements; each invocation but the first is given the pair the one       *)
(* before returned; no invocation changes the list or the module, and the  *)
(* call on the whole tensor is given the list's elements.                  *)
C10_LoopInvocations ==
    /\ [](pc \in {"loop", "all_at_once", "call", "done"} =>
            /\ StepsDone <= Len(inputs_list)
            /\ (pc = "loop") <=> (StepsDone < Len(inputs_list))
            /\ Len(calls) = StepsDone + (IF pc = "done" THEN 1 ELSE 0)
            /\ \A t \in 1..StepsDone :
                  /\ calls[t].input.shape = <<1, 1, input_dim>>
                  /\ calls[t].input.data = inputs_list[t].data
                  /\ t > 1 => calls[t].hx = calls[t - 1].hidden
            /\ pc = "done" => Batched.input.data = CatData(inputs_list))
    /\ [][pc # "define" => (inputs_list' = inputs_list /\ lstm' = lstm)]_vars

C10_Witness ==
    /\ pc = "done"
    /\ Len(inputs_list) >= 3
    /\ inputs_list[2] # inputs_list[3]
    /\ Len(calls) = Len(inputs_list) + 1
    /\ calls[3].hx = calls[2].hidden

====
